---- MODULE Spec2Model ----
(***************************************************************************)
(* Model of the reconciliation / metric / anomaly engine of the Automated  *)
(* Insight Engine: process_data (src/src/data_processing.py) and           *)
(* _detect_anomalies (src/src/report_generator/pdf_report.py and           *)
(* ppt_report.py).                                                         *)
(*                                                                         *)
(* A data frame is a sequence of rows, a row a record of cells.  A numeric *)
(* cell is a float: a rational number, NaN (pandas' null) or an infinity.  *)
(***************************************************************************)
EXTENDS Integers, Sequences, FiniteSets, TLC

VARIABLES traffic_df, clicks_df, weather_df, pc, merged, overall,
          campaign_summary, pdf_anomalies, ppt_anomalies,
          columns, warnings, error, merged_cols, runs,
          drop_threshold, env, retries, responses, requests, llm_result,
          insights, reports

vars == <<traffic_df, clicks_df, weather_df, pc, merged, overall,
          campaign_summary, pdf_anomalies, ppt_anomalies,
          columns, warnings, error, merged_cols, runs,
          drop_threshold, env, retries, responses, requests, llm_result,
          insights, reports>>

\* The arguments and the state of the LLM call, the threshold argument of
\* the scan and the report files.
llm_vars == <<drop_threshold, env, retries, responses, requests, llm_result,
          insights, reports>>

(***************************************************************************)
(* Floats.                                                                 *)
(***************************************************************************)
Abs(x) == IF x < 0 THEN -x ELSE x

RECURSIVE GCD(_, _)
GCD(a, b) == IF b = 0 THEN a ELSE GCD(b, a % b)

\* The float n/d (d > 0), in lowest terms.
Num(n, d) ==
  LET g == GCD(Abs(n), d)
  IN  [kind |-> "num", n |-> n \div g, d |-> d \div g]

Int2F(n) == [kind |-> "num", n |-> n, d |-> 1]

NaN == [kind |-> "nan", n |-> 0, d |-> 1]

PosInf == [kind |-> "inf", n |-> 1, d |-> 1]

NegInf == [kind |-> "inf", n |-> -1, d |-> 1]

Zero == Int2F(0)

IsNull(x) == x.kind = "nan"

IsInf(x) == x.kind = "inf"

IsNum(x) == x.kind = "num"

\* a + b on finite floats.
Add(a, b) == Num(a.n * b.d + b.n * a.d, a.d * b.d)

\* a <= b on finite floats.
Leq(a, b) == a.n * b.d <= b.n * a.d

\* Series division a / b as pandas (numpy float64) computes it: a null
\* operand gives NaN, 0/0 gives NaN, x/0 gives a signed infinity.
SeriesDiv(a, b) ==
  IF IsNull(a) \/ IsNull(b) THEN NaN
  ELSE IF b.n = 0 THEN (IF a.n = 0 THEN NaN
                        ELSE IF a.n > 0 THEN PosInf ELSE NegInf)
  ELSE IF b.n > 0 THEN Num(a.n * b.d, a.d * b.n)
  ELSE Num(-(a.n * b.d), a.d * (-b.n))

\* Series.replace([inf, -inf], nan) on one cell.
ReplaceInf(x) == IF IsInf(x) THEN NaN ELSE x

\* Series.sum(): nulls are skipped, the empty sum is 0.
RECURSIVE SumSeq(_)
SumSeq(s) ==
  IF s = <<>> THEN Zero
  ELSE IF IsNull(Head(s)) THEN SumSeq(Tail(s))
  ELSE Add(Head(s), SumSeq(Tail(s)))

RECURSIVE CountSeq(_)
CountSeq(s) ==
  IF s = <<>> THEN 0
  ELSE (IF IsNull(Head(s)) THEN 0 ELSE 1) + CountSeq(Tail(s))

\* Series.mean(): nulls are skipped, the mean of nothing is NaN.
MeanSeq(s) ==
  LET c == CountSeq(s)
      t == SumSeq(s)
  IN  IF c = 0 THEN NaN ELSE Num(t.n, t.d * c)

\* The column f of a frame, as a sequence of cells.
Column(df, f) == [i \in 1..Len(df) |-> df[i][f]]

Range(s) == {s[i] : i \in 1..Len(s)}

(***************************************************************************)
(* Dates and the order of key values.                                      *)
(***************************************************************************)
\* A date cell as read from a CSV file: a string.
StrDate(s) == [typ |-> "str", str |-> s, day |-> 0]

\* A date cell after pd.to_datetime: a Timestamp, held as its day of
\* January 2025.
Timestamp(d) == [typ |-> "ts", str |-> "", day |-> d]

\* The date strings of the input files; pd.to_datetime parses each of them.
DateStrings == {"2025-01-03", "2025-01-04", "2025-01-05"}

ParseDay(s) ==
  CASE s = "2025-01-03" -> 3
    [] s = "2025-01-04" -> 4
    [] s = "2025-01-05" -> 5

\* Whether pd.to_datetime can convert the cell.
Parseable(c) == c.typ = "ts" \/ c.str \in DateStrings

\* A conversion that moves a cell that is a Timestamp already.
ToDatetimeShift(c) ==
  IF c.typ = "ts" THEN Timestamp(c.day + 1) ELSE Timestamp(ParseDay(c.str))

\* pd.to_datetime on one cell.
ToDatetime(c) == IF c.typ = "ts" THEN c ELSE Timestamp(ParseDay(c.str))

\* str(Timestamp).
TimestampStr(d) ==
  CASE d = 3 -> "2025-01-03 00:00:00"
    [] d = 4 -> "2025-01-04 00:00:00"
    [] d = 5 -> "2025-01-05 00:00:00"

\* The sort order of the strings used as key values.
StrRank(s) ==
  CASE s = "CAMP01" -> 1
    [] s = "CAMP02" -> 2
    [] s = "Delhi" -> 3
    [] s = "Mumbai" -> 4

\* Lexicographic order on tuples of integers of one length.
RECURSIVE LexLeq(_, _)
LexLeq(a, b) ==
  IF a = <<>> THEN TRUE
  ELSE IF Head(a) # Head(b) THEN Head(a) < Head(b)
  ELSE LexLeq(Tail(a), Tail(b))

\* The keys K in ascending order of rank[k] (rank is one-to-one on K): the
\* order in which groupby (sort=True) and sort_values list them.
RECURSIVE SortByRank(_, _)
SortByRank(K, rank) ==
  IF K = {} THEN <<>>
  ELSE LET m == CHOOSE k \in K : \A j \in K : LexLeq(rank[k], rank[j])
       IN  <<m>> \o SortByRank(K \ {m}, rank)

(***************************************************************************)
(* process_data: date conversion, the three aggregations, the two joins.   *)
(***************************************************************************)
\* The columns process_data requires of each input.
RequiredColumns ==
  [traffic |-> {"date", "location", "campaign_id", "impressions"},
   clicks |-> {"date", "campaign_id", "clicks", "conversions", "spend"},
   weather |-> {"date", "location", "temperature_c", "rainfall_mm"}]

\* A derivation that names the traffic frame whatever the dataset.
FrameOfTraffic(name) == "traffic"

\* name.split('.')[0].split('_')[0]: the frame that eval(f"{...}_df") reads
\* for the dataset called name.
FrameOf(name) ==
  CASE name = "traffic.csv" -> "traffic"
    [] name = "clicks.csv" -> "clicks"
    [] name = "weather.csv" -> "weather"

\* missing = cols - set(<frame>.columns), for the pair (cols, name) whose
\* required columns are those of the dataset req.
MissingColumns(cols, req, name) == RequiredColumns[req] \ cols[FrameOf(name)]

\* The datasets the loop of lines 28-35 warns about.
Warned(cols) ==
  {x[2] : x \in {y \in {<<"traffic", "traffic.csv">>,
                         <<"clicks", "clicks.csv">>,
                         <<"weather", "weather.csv">>} :
                   MissingColumns(cols, y[1], y[2]) # {}}}

\* Whether the conversion of lines 39-40 goes through for a frame.
DatesParse(df, cols) ==
  "date" \notin cols \/ \A i \in 1..Len(df) : Parseable(df[i].date)

\* Whether the group-bys and aggregations find every column they name.
ColumnsPresent(cols) ==
  \A f \in {"traffic", "clicks", "weather"} : RequiredColumns[f] \subseteq cols[f]

\* The exception process_data ends in with the group-bys raising before the
\* date conversion.
ProcessErrorColumnsFirst(t, c, w, cols) ==
  IF ~ColumnsPresent(cols) THEN "KeyError"
  ELSE IF ~(/\ DatesParse(t, cols.traffic)
            /\ DatesParse(c, cols.clicks)
            /\ DatesParse(w, cols.weather)) THEN "ValueError"
  ELSE "none"

\* The exception process_data ends in: pd.to_datetime raises ValueError in
\* the loop of lines 38-40, then a group-by or aggregation over an absent
\* column raises KeyError (lines 43-58).
ProcessError(t, c, w, cols) ==
  IF ~(/\ DatesParse(t, cols.traffic)
       /\ DatesParse(c, cols.clicks)
       /\ DatesParse(w, cols.weather)) THEN "ValueError"
  ELSE IF ~ColumnsPresent(cols) THEN "KeyError"
  ELSE "none"

\* df["date"] = pd.to_datetime(df["date"])
ConvertDates(df) == [i \in 1..Len(df) |-> [df[i] EXCEPT !.date = ToDatetime(@)]]

TrafficKey(r) == <<r.date.day, r.campaign_id, r.location>>

TrafficKeyRank(k) == <<k[1], StrRank(k[2]), StrRank(k[3])>>

\* traffic_df.groupby(["date", "campaign_id", "location"]).agg(sum)
\* (the key cells of the input rows are never null, so groupby's dropna
\* drops nothing).
TrafficAgg(df) ==
  LET K == {TrafficKey(r) : r \in Range(df)}
      order == SortByRank(K, [k \in K |-> TrafficKeyRank(k)])
      grp(k) == SelectSeq(df, LAMBDA r : TrafficKey(r) = k)
  IN  [i \in 1..Len(order) |->
        [date |-> Timestamp(order[i][1]),
         campaign_id |-> order[i][2],
         location |-> order[i][3],
         impressions |-> SumSeq(Column(grp(order[i]), "impressions"))]]

ClicksKey(r) == <<r.date.day, r.campaign_id>>

ClicksKeyRank(k) == <<k[1], StrRank(k[2])>>

\* clicks_df.groupby(["date", "campaign_id"]).agg(sum, sum, sum)
ClicksAgg(df) ==
  LET K == {ClicksKey(r) : r \in Range(df)}
      order == SortByRank(K, [k \in K |-> ClicksKeyRank(k)])
      grp(k) == SelectSeq(df, LAMBDA r : ClicksKey(r) = k)
  IN  [i \in 1..Len(order) |->
        [date |-> Timestamp(order[i][1]),
         campaign_id |-> order[i][2],
         clicks |-> SumSeq(Column(grp(order[i]), "clicks")),
         conversions |-> SumSeq(Column(grp(order[i]), "conversions")),
         spend |-> SumSeq(Column(grp(order[i]), "spend"))]]

WeatherKey(r) == <<r.date.day, r.location>>

WeatherKeyRank(k) == <<k[1], StrRank(k[2])>>

\* weather_df.groupby(["date", "location"]).agg(mean, sum)
WeatherAgg(df) ==
  LET K == {WeatherKey(r) : r \in Range(df)}
      order == SortByRank(K, [k \in K |-> WeatherKeyRank(k)])
      grp(k) == SelectSeq(df, LAMBDA r : WeatherKey(r) = k)
  IN  [i \in 1..Len(order) |->
        [date |-> Timestamp(order[i][1]),
         location |-> order[i][2],
         temperature_c |-> MeanSeq(Column(grp(order[i]), "temperature_c")),
         rainfall_mm |-> SumSeq(Column(grp(order[i]), "rainfall_mm"))]]

ClickCells(q) ==
  [clicks |-> q.clicks, conversions |-> q.conversions, spend |-> q.spend]

\* The right cells of an unmatched row filled with 0.
NoClickCellsZero == [clicks |-> Zero, conversions |-> Zero, spend |-> Zero]

NoClickCells == [clicks |-> NaN, conversions |-> NaN, spend |-> NaN]

\* JoinClickRow as an inner join would have it.
JoinClickRowInner(l, right) ==
  LET hit == SelectSeq(right, LAMBDA q : ClicksKey(q) = ClicksKey(l))
  IN  [j \in 1..Len(hit) |-> l @@ ClickCells(hit[j])]

\* The rows one left row l gives in a left join: one per matching right
\* row, or one with null right cells when nothing matches.
JoinClickRow(l, right) ==
  LET hit == SelectSeq(right, LAMBDA q : ClicksKey(q) = ClicksKey(l))
  IN  IF hit = <<>> THEN <<l @@ NoClickCells>>
      ELSE [j \in 1..Len(hit) |-> l @@ ClickCells(hit[j])]

\* pd.merge(left, right, on=["date", "campaign_id"], how="left")
\* A join that gives a click aggregate to the first left row of its key
\* only.
MergeClicksOnce(left, right) ==
  [i \in 1..Len(left) |->
     IF \E j \in 1..(i - 1) : ClicksKey(left[j]) = ClicksKey(left[i])
     THEN left[i] @@ NoClickCells
     ELSE JoinClickRow(left[i], right)[1]]

RECURSIVE MergeClicks(_, _)
MergeClicks(left, right) ==
  IF left = <<>> THEN <<>>
  ELSE JoinClickRow(Head(left), right) \o MergeClicks(Tail(left), right)

WeatherCells(q) ==
  [temperature_c |-> q.temperature_c, rainfall_mm |-> q.rainfall_mm]

NoWeatherCells == [temperature_c |-> NaN, rainfall_mm |-> NaN]

JoinWeatherRow(l, right) ==
  LET hit == SelectSeq(right, LAMBDA q : WeatherKey(q) = WeatherKey(l))
  IN  IF hit = <<>> THEN <<l @@ NoWeatherCells>>
      ELSE [j \in 1..Len(hit) |-> l @@ WeatherCells(hit[j])]

\* pd.merge(left, right, on=["date", "location"], how="left")
RECURSIVE MergeWeather(_, _)
MergeWeather(left, right) ==
  IF left = <<>> THEN <<>>
  ELSE JoinWeatherRow(Head(left), right) \o MergeWeather(Tail(left), right)

\* RowRatio without the replacement of the infinities.
RowRatioRaw(a, b) == SeriesDiv(a, b)

\* RowRatio with a zero numerator treated like a zero denominator.
RowRatioZeroNumerator(a, b) ==
  IF IsNum(a) /\ a.n = 0 THEN NaN ELSE ReplaceInf(SeriesDiv(a, b))

\* A row-level ratio: the division, then the replacement of +-inf by NaN.
RowRatio(a, b) == ReplaceInf(SeriesDiv(a, b))

RatioCells(r) ==
  [ctr |-> RowRatio(r.clicks, r.impressions),
   cpc |-> RowRatio(r.spend, r.clicks),
   conversion_rate |-> RowRatio(r.conversions, r.clicks),
   cpa |-> RowRatio(r.spend, r.conversions)]

\* The merged frame process_data returns, from the date-converted inputs.
Merged(t, c, w) ==
  LET joined == MergeWeather(MergeClicks(TrafficAgg(t), ClicksAgg(c)),
                             WeatherAgg(w))
  IN  [i \in 1..Len(joined) |-> joined[i] @@ RatioCells(joined[i])]

(***************************************************************************)
(* process_data: the overall metrics and the campaign summary.             *)
(***************************************************************************)
\* OverallRatio with the row-level null policy.
OverallRatioNull(x, y) == ReplaceInf(SeriesDiv(x, y))

\* x / y if y else 0.0
OverallRatio(x, y) == IF y.n # 0 THEN SeriesDiv(x, y) ELSE Zero

Overall(m) ==
  LET ti == SumSeq(Column(m, "impressions"))
      tc == SumSeq(Column(m, "clicks"))
      tv == SumSeq(Column(m, "conversions"))
      ts == SumSeq(Column(m, "spend"))
  IN  [total_impressions |-> ti,
       total_clicks |-> tc,
       total_conversions |-> tv,
       total_spend |-> ts,
       overall_ctr |-> OverallRatio(tc, ti),
       overall_cpc |-> OverallRatio(ts, tc),
       overall_cvr |-> OverallRatio(tv, tc),
       overall_cpa |-> OverallRatio(ts, tv)]

\* A campaign-summary ratio: the bare Series division.
CampaignRatio(a, b) == SeriesDiv(a, b)

\* A summary with one row per Unified Record, not grouped by campaign.
CampaignSummaryPerRecord(m) ==
  [i \in 1..Len(m) |->
     [campaign_id |-> m[i].campaign_id,
      impressions |-> m[i].impressions,
      clicks |-> m[i].clicks,
      conversions |-> m[i].conversions,
      spend |-> m[i].spend]]

\* merged.groupby("campaign_id").agg(sum x 4).reset_index(), then the ratios
CampaignSummary(m) ==
  LET K == {r.campaign_id : r \in Range(m)}
      order == SortByRank(K, [k \in K |-> <<StrRank(k)>>])
      grp(k) == SelectSeq(m, LAMBDA r : r.campaign_id = k)
      sums(k) == [campaign_id |-> k,
                  impressions |-> SumSeq(Column(grp(k), "impressions")),
                  clicks |-> SumSeq(Column(grp(k), "clicks")),
                  conversions |-> SumSeq(Column(grp(k), "conversions")),
                  spend |-> SumSeq(Column(grp(k), "spend"))]
      ratios(s) == [ctr |-> CampaignRatio(s.clicks, s.impressions),
                    cpc |-> CampaignRatio(s.spend, s.clicks),
                    cvr |-> CampaignRatio(s.conversions, s.clicks),
                    cpa |-> CampaignRatio(s.spend, s.conversions)]
  IN  [i \in 1..Len(order) |-> sums(order[i]) @@ ratios(sums(order[i]))]

(***************************************************************************)
(* _detect_anomalies (the PDF and the PPT generator each hold a copy).     *)
(***************************************************************************)
\* The columns of the frame process_data returns.
UnifiedColumns ==
  {"date", "campaign_id", "location", "impressions", "clicks", "conversions",
   "spend", "temperature_c", "rainfall_mm", "ctr", "cpc", "conversion_rate",
   "cpa"}

\* The default of the drop_threshold parameter, 0.3.
DefaultDropThreshold == Num(3, 10)

\* f"{x:.1f}": x rounded to one decimal, ties to even; NaN prints as nan.
Round1(x) ==
  IF ~IsNum(x) THEN x
  ELSE LET t == 10 * x.n
           q == t \div x.d
           r == t % x.d
           up == 2 * r > x.d \/ (2 * r = x.d /\ q % 2 = 1)
       IN  Num(IF up THEN q + 1 ELSE q, 10)

\* int(x): truncation toward zero.
Trunc(x) == IF x.n >= 0 THEN x.n \div x.d ELSE -((-x.n) \div x.d)

DailyKey(r) == <<r.date.day, r.location>>

\* The rank by which sort_values(["location", "date"]) orders daily rows.
DailyRank(k) == <<StrRank(k[2]), k[1]>>

\* merged_df.groupby(["date", "location"])["impressions"].sum()
\*          .sort_values(["location", "date"])
Daily(m) ==
  LET K == {DailyKey(r) : r \in Range(m)}
      order == SortByRank(K, [k \in K |-> DailyRank(k)])
      grp(k) == SelectSeq(m, LAMBDA r : DailyKey(r) = k)
  IN  [i \in 1..Len(order) |->
        [date |-> Timestamp(order[i][1]),
         location |-> order[i][2],
         impressions |-> SumSeq(Column(grp(order[i]), "impressions"))]]

\* A series that takes the entries of every location, in date order.
LocationSeriesMixed(daily, loc) ==
  LET K == {i : i \in 1..Len(daily)}
      order == SortByRank(K, [i \in K |-> <<daily[i].date.day, i>>])
  IN  [i \in 1..Len(order) |-> daily[order[i]]]

\* One group of daily.groupby("location"), after grp.sort_values("date").
LocationSeries(daily, loc) ==
  LET g == SelectSeq(daily, LAMBDA r : r.location = loc)
      K == {i : i \in 1..Len(g)}
      order == SortByRank(K, [i \in K |-> <<g[i].date.day, i>>])
  IN  [i \in 1..Len(order) |-> g[order[i]]]

\* Change relative to the current day instead of the previous one.
ChangeOverCurrent(prev, curr) ==
  SeriesDiv(Add(curr, [prev EXCEPT !.n = -prev.n]), curr)

\* (curr - prev) / prev, for prev > 0.
Change(prev, curr) ==
  SeriesDiv(Add(curr, [prev EXCEPT !.n = -prev.n]), prev)

\* IsDrop with an exclusive bound.
IsDropStrict(prev, curr, th) ==
  /\ ~Leq(prev, Zero)
  /\ Leq(Change(prev, curr), [th EXCEPT !.n = -th.n])
  /\ Change(prev, curr) # [th EXCEPT !.n = -th.n]

\* The test of one pair: the zero guard, then the threshold.  The floats
\* are compared as the rationals they stand for.
IsDrop(prev, curr, th) ==
  /\ ~Leq(prev, Zero)
  /\ Leq(Change(prev, curr), [th EXCEPT !.n = -th.n])

\* The rainfall part of a finding's message.
RainPart(m, cols, day, loc) ==
  LET has_rain == "rainfall_mm" \in cols
      rain_vals == Column(SelectSeq(m, LAMBDA r : r.date.day = day
                                                  /\ r.location = loc),
                          "rainfall_mm")
  IN  IF has_rain /\ rain_vals # <<>>
      THEN [present |-> TRUE, mm |-> Round1(MeanSeq(rain_vals))]
      ELSE [present |-> FALSE, mm |-> Zero]

\* A message with the two impression counts in each other's place.
FindingSwapped(m, cols, loc, prev_row, curr_row) ==
  LET change == Change(prev_row.impressions, curr_row.impressions)
  IN  [location |-> loc,
       date |-> TimestampStr(curr_row.date.day),
       drop_pct |-> Round1(Num(-change.n * 100, change.d)),
       impressions_current |-> Trunc(prev_row.impressions),
       impressions_previous |-> Trunc(curr_row.impressions),
       rainfall |-> RainPart(m, cols, curr_row.date.day, loc)]

\* The message appended for the pair (prev_row, curr_row) of a location.
Finding(m, cols, loc, prev_row, curr_row) ==
  LET change == Change(prev_row.impressions, curr_row.impressions)
  IN  [location |-> loc,
       date |-> TimestampStr(curr_row.date.day),
       drop_pct |-> Round1(Num(-change.n * 100, change.d)),
       impressions_current |-> Trunc(curr_row.impressions),
       impressions_previous |-> Trunc(prev_row.impressions),
       rainfall |-> RainPart(m, cols, curr_row.date.day, loc)]

\* SeriesFindings with the zero guard leaving the loop (break) instead of
\* skipping the pair (continue).
SeriesFindingsBreak(m, cols, loc, grp, th) ==
  LET stop == {i \in 2..Len(grp) : Leq(grp[i - 1].impressions, Zero)}
      last == IF stop = {} THEN Len(grp)
              ELSE (CHOOSE i \in stop : \A j \in stop : i <= j) - 1
      idx == SelectSeq([i \in 1..(Len(grp) - 1) |-> i + 1],
                       LAMBDA i : i <= last
                                  /\ IsDrop(grp[i - 1].impressions,
                                            grp[i].impressions, th))
  IN  [j \in 1..Len(idx) |-> Finding(m, cols, loc, grp[idx[j] - 1], grp[idx[j]])]

\* The inner loop over one location's series: for i in range(1, len(grp)).
SeriesFindings(m, cols, loc, grp, th) ==
  LET idx == SelectSeq([i \in 1..(Len(grp) - 1) |-> i + 1],
                       LAMBDA i : IsDrop(grp[i - 1].impressions,
                                         grp[i].impressions, th))
  IN  [j \in 1..Len(idx) |-> Finding(m, cols, loc, grp[idx[j] - 1], grp[idx[j]])]

RECURSIVE ConcatFindings(_, _, _, _, _)
ConcatFindings(m, cols, daily, locs, th) ==
  IF locs = <<>> THEN <<>>
  ELSE SeriesFindings(m, cols, Head(locs),
                      LocationSeries(daily, Head(locs)), th)
       \o ConcatFindings(m, cols, daily, Tail(locs), th)

\* GroupedLocations in descending order.
GroupedLocationsReversed(daily) ==
  LET K == {r.location : r \in Range(daily)}
  IN  SortByRank(K, [k \in K |-> <<-StrRank(k)>>])

\* The locations in the order daily.groupby("location") yields its groups.
GroupedLocations(daily) ==
  LET K == {r.location : r \in Range(daily)}
  IN  SortByRank(K, [k \in K |-> <<StrRank(k)>>])

\* _detect_anomalies of pdf_report.py without the column test of line 206.
DetectAnomaliesPdfNoGuard(m, cols, th) ==
  ConcatFindings(m, cols, Daily(m), GroupedLocations(Daily(m)), th)

\* _detect_anomalies(merged_df, drop_threshold) of pdf_report.py
DetectAnomaliesPdf(m, cols, th) ==
  IF "impressions" \notin cols \/ "location" \notin cols \/ "date" \notin cols
  THEN <<>>
  ELSE ConcatFindings(m, cols, Daily(m), GroupedLocations(Daily(m)), th)

\* The PPT copy with the locations taken in descending order.
DetectAnomaliesPptReversed(m, cols, th) ==
  IF "impressions" \notin cols \/ "location" \notin cols \/ "date" \notin cols
  THEN <<>>
  ELSE ConcatFindings(m, cols, Daily(m), GroupedLocationsReversed(Daily(m)),
                      th)

\* _detect_anomalies(merged_df, drop_threshold) of ppt_report.py
DetectAnomaliesPpt(m, cols, th) ==
  IF "impressions" \notin cols \/ "location" \notin cols \/ "date" \notin cols
  THEN <<>>
  ELSE ConcatFindings(m, cols, Daily(m), GroupedLocations(Daily(m)), th)

(***************************************************************************)
(* call_gemini_api and generate_insights.  A string is the sequence of its *)
(* characters; a message is held up to the end of its fixed leading text.  *)
(***************************************************************************)
\* s.startswith(p)
StartsWith(s, p) == Len(s) >= Len(p) /\ SubSeq(s, 1, Len(p)) = p

W_Error == <<"E", "r", "r", "o", "r">>

W_FATAL_ERROR == <<"F", "A", "T", "A", "L", " ", "E", "R", "R", "O", "R">>

W_API_Error == <<"A", "P", "I", " ">> \o W_Error

\* "FATAL ERROR: API Key is missing. ..."
MsgApiKeyMissing == W_FATAL_ERROR \o <<":", " ", "A", "P", "I">>

\* "Error connecting to the model after {retries} attempts: {e}"
MsgConnecting ==
  W_Error \o <<" ", "c", "o", "n", "n", "e", "c", "t", "i", "n", "g">>

\* "API Error (HTTP 400 Bad Request): ..."
MsgHttp400 == W_API_Error \o <<" ", "(", "H", "T", "T", "P", " ", "4", "0", "0">>

\* "API Error (HTTP 404 Not Found): ..."
MsgHttp404 == W_API_Error \o <<" ", "(", "H", "T", "T", "P", " ", "4", "0", "4">>

\* "API Error: Non-JSON response: ..."
MsgNonJson == W_API_Error \o <<":", " ", "N", "o", "n", "-", "J", "S", "O", "N">>

\* "Error: Could not extract content from the API response. ..."
MsgNoContent == W_Error \o <<":", " ", "C", "o", "u", "l", "d">>

\* "Error extracting model output: ..."
MsgExtracting ==
  W_Error \o <<" ", "e", "x", "t", "r", "a", "c", "t", "i", "n", "g">>

\* "API call failed after retries."
MsgAfterRetries ==
  <<"A", "P", "I", " ", "c", "a", "l", "l", " ", "f", "a", "i", "l", "e", "d">>

\* The default of the retries parameter.
DefaultRetries == 3

\* What call_gemini_api returned: the string, whether it is text taken from
\* the response ("text") or a message of the client ("failure"), and the
\* number of requests sent.  kind "number" is a return value that is no
\* string: the JSON number found under "outputText", returned as it is.
Result(k, str, n) == [kind |-> k, str |-> str, requests |-> n]

\* No call has returned.
NoResult == Result("none", <<>>, 0)

\* The outcome of one requests.post: an exception, or a response with its
\* status code and body.  body: "candidates" (JSON with candidate text),
\* "outputText" (JSON with that key), "no_text" (JSON without text),
\* "not_dict" (JSON that is not an object), "non_json", "outputNumber" (JSON
\* whose "outputText" is a non-zero number).
Raised == [raised |-> TRUE, status |-> 0, body |-> "", text |-> <<>>]

Http(status, body, text) ==
  [raised |-> FALSE, status |-> status, body |-> body, text |-> text]

\* Lines 78-122 for the response r of attempt number n.
Respond(r, n) ==
  IF r.status = 400 THEN Result("failure", MsgHttp400, n)
  ELSE IF r.status = 404 THEN Result("failure", MsgHttp404, n)
  ELSE IF r.body = "non_json" THEN Result("failure", MsgNonJson, n)
  ELSE IF r.body = "not_dict" THEN Result("failure", MsgExtracting, n)
  ELSE IF r.body \in {"candidates", "outputText"} /\ r.text # <<>>
       THEN Result("text", r.text, n)
  ELSE IF r.body = "outputNumber" THEN Result("number", <<>>, n)
  ELSE Result("failure", MsgNoContent, n)

\* The loop `for attempt in range(1, retries + 1)` from attempt on; resps[i]
\* is the outcome of the i-th request.
RECURSIVE Attempts(_, _, _)
Attempts(attempt, n, resps) ==
  IF attempt > n THEN Result("failure", MsgAfterRetries, attempt - 1)
  ELSE IF resps[attempt].raised
       THEN IF attempt = n THEN Result("failure", MsgConnecting, attempt)
            ELSE Attempts(attempt + 1, n, resps)
  ELSE Respond(resps[attempt], attempt)

\* call_gemini_api(system_prompt, contents, retries = n) with or without
\* an API key in the environment.
CallGeminiApi(key, n, resps) ==
  IF ~key THEN Result("failure", MsgApiKeyMissing, 0)
  ELSE Attempts(1, n, resps)

\* text.strip() and re.sub(r"^#{1,6}\s*", "", text) on a one-line text.
RECURSIVE LStrip(_)
LStrip(s) == IF s # <<>> /\ Head(s) = " " THEN LStrip(Tail(s)) ELSE s

RECURSIVE RStrip(_)
RStrip(s) ==
  IF s # <<>> /\ s[Len(s)] = " " THEN RStrip(SubSeq(s, 1, Len(s) - 1)) ELSE s

Strip(s) == RStrip(LStrip(s))

\* s without at most k leading "#".
RECURSIVE DropHashes(_, _)
DropHashes(s, k) ==
  IF k > 0 /\ s # <<>> /\ Head(s) = "#" THEN DropHashes(Tail(s), k - 1) ELSE s

\* The heading rule: one to six "#" at the start and the blanks after them.
DropHeading(s) ==
  IF s # <<>> /\ Head(s) = "#" THEN LStrip(DropHashes(s, 6)) ELSE s

\* clean_markdown(text) for a one-line text without underscores: the
\* heading marker goes, then every asterisk (paired or stray), then the
\* blanks at both ends.
CleanMarkdown(s) ==
  IF s = <<>> THEN s
  ELSE Strip(SelectSeq(DropHeading(s), LAMBDA ch : ch # "*"))

\* The test of generate_insights that takes the result for a failure.
Rejected(text) ==
  text = <<>> \/ StartsWith(text, W_Error) \/ StartsWith(text, W_FATAL_ERROR)

(***************************************************************************)
(* The inputs.                                                             *)
(***************************************************************************)
\* The bound of the model: the three input files hold at most MaxRows rows
\* together (one or two more in the specifications that say so).
MaxRows == 3

\* The calls of process_data made on the same frame objects.
MaxRuns == 2

\* The largest retries argument call_gemini_api is called with.
MaxRetries == 3

\* The subsets of S of exactly k elements.
RECURSIVE KSubsets(_, _)
KSubsets(S, k) ==
  IF k = 0 THEN {{}}
  ELSE UNION {{T \cup {x} : x \in S \ T} : T \in KSubsets(S, k - 1)}

\* The rows S laid out as a frame, in some order.
RECURSIVE SetToFrame(_)
SetToFrame(S) ==
  IF S = {} THEN <<>>
  ELSE LET x == CHOOSE y \in S : TRUE
       IN  <<x>> \o SetToFrame(S \ {x})

\* The frames of exactly k distinct rows drawn from Rows.
Frames(Rows, k) == {SetToFrame(S) : S \in KSubsets(Rows, k)}

TrafficRows(dates, locs, camps, values) ==
  {[date |-> StrDate(d), location |-> l, campaign_id |-> c,
    impressions |-> Int2F(v)] :
     d \in dates, l \in locs, c \in camps, v \in values}

\* values: triples (clicks, conversions, spend).
ClickRows(dates, camps, values) ==
  {[date |-> StrDate(d), campaign_id |-> c, clicks |-> Int2F(v[1]),
    conversions |-> Int2F(v[2]), spend |-> Int2F(v[3])] :
     d \in dates, c \in camps, v \in values}

\* values: pairs (temperature_c, rainfall_mm).
WeatherRows(dates, locs, values) ==
  {[date |-> StrDate(d), location |-> l, temperature_c |-> Int2F(v[1]),
    rainfall_mm |-> Int2F(v[2])] :
     d \in dates, l \in locs, v \in values}

NoOverall ==
  [total_impressions |-> NaN, total_clicks |-> NaN,
   total_conversions |-> NaN, total_spend |-> NaN, overall_ctr |-> NaN,
   overall_cpc |-> NaN, overall_cvr |-> NaN, overall_cpa |-> NaN]

\* The state when ingest_all_data has returned three frames of at most n
\* rows together, drawn from the rows T, C and W.
InitFrames(T, C, W, n) ==
  \E a, b, c \in 0..n :
    /\ a + b + c <= n
    /\ traffic_df \in Frames(T, a)
    /\ clicks_df \in Frames(C, b)
    /\ weather_df \in Frames(W, c)

\* No output yet.
InitOutputs ==
  /\ merged = <<>>
  /\ merged_cols = {}
  /\ overall = NoOverall
  /\ campaign_summary = <<>>
  /\ pdf_anomalies = <<>>
  /\ ppt_anomalies = <<>>
  /\ warnings = {}
  /\ error = "none"
  /\ runs = 0
  /\ drop_threshold = DefaultDropThreshold

\* A configuration with the LLM enabled, an API key and both formats.
DefaultEnv ==
  [files_exist |-> TRUE, llm_enabled |-> TRUE, api_key |-> TRUE,
   formats |-> {"pdf", "pptx"}]

\* No LLM call and no report yet.
InitLlm(e) ==
  /\ env = e
  /\ retries = DefaultRetries
  /\ responses = <<>>
  /\ requests = 0
  /\ llm_result = NoResult
  /\ insights = <<>>
  /\ reports = <<>>

\* The state when ingest_all_data has returned three frames of at most n
\* rows together, drawn from the rows T, C and W, with all their columns.
InitWith(T, C, W, n) ==
  /\ InitFrames(T, C, W, n)
  /\ columns = RequiredColumns
  /\ pc = "ingested"
  /\ InitOutputs
  /\ InitLlm(DefaultEnv)

\* Two days, two locations, two campaigns; click rows with and without
\* clicks, conversions and spend.
Init ==
  InitWith(TrafficRows({"2025-01-04", "2025-01-05"}, {"Delhi", "Mumbai"},
                       {"CAMP01", "CAMP02"}, {0, 100}),
           ClickRows({"2025-01-04", "2025-01-05"}, {"CAMP01", "CAMP02"},
                     {<<0, 0, 0>>, <<0, 0, 10>>, <<5, 0, 10>>, <<5, 1, 10>>}),
           WeatherRows({"2025-01-04", "2025-01-05"}, {"Delhi", "Mumbai"},
                       {<<25, 12>>}),
           MaxRows)

\* One location over two days, two campaigns, impressions on both sides of
\* the 30% drop.
InitThreshold ==
  InitWith(TrafficRows({"2025-01-04", "2025-01-05"}, {"Delhi"},
                       {"CAMP01", "CAMP02"}, {0, 70, 71, 100}),
           {},
           WeatherRows({"2025-01-05"}, {"Delhi"}, {<<25, 12>>}),
           MaxRows + 1)

\* Two locations over three days, one campaign.
InitScan ==
  InitWith(TrafficRows({"2025-01-03", "2025-01-04", "2025-01-05"},
                       {"Delhi", "Mumbai"}, {"CAMP01"}, {0, 70, 100}),
           {},
           WeatherRows({"2025-01-05"}, {"Delhi", "Mumbai"}, {<<25, 12>>}),
           MaxRows + 1)

\* The rows of the end-to-end scenario and their recombinations.
InitScenario ==
  InitWith(TrafficRows({"2025-01-04", "2025-01-05"}, {"Delhi"}, {"CAMP01"},
                       {600, 1000}),
           ClickRows({"2025-01-04", "2025-01-05"}, {"CAMP01"},
                     {<<50, 5, 100>>, <<30, 3, 60>>}),
           WeatherRows({"2025-01-04", "2025-01-05"}, {"Delhi"}, {<<25, 12>>}),
           MaxRows + 2)

\* A set of columns, whole or with one column absent.
Without(S) == {S} \cup {S \ {c} : c \in S}

\* One key per dataset, a date pd.to_datetime cannot parse, and inputs
\* that lack at most one required column each.
InitDegraded ==
  /\ InitFrames(TrafficRows({"2025-01-04", "not-a-date"}, {"Delhi"},
                            {"CAMP01"}, {100}),
                ClickRows({"2025-01-04", "not-a-date"}, {"CAMP01"},
                          {<<5, 1, 10>>}),
                WeatherRows({"2025-01-04", "not-a-date"}, {"Delhi"},
                            {<<25, 12>>}),
                MaxRows)
  /\ columns \in [traffic : Without(RequiredColumns.traffic),
                  clicks : Without(RequiredColumns.clicks),
                  weather : Without(RequiredColumns.weather)]
  /\ pc = "ingested"
  /\ InitOutputs
  /\ InitLlm(DefaultEnv)

\* The anomaly scan as a function of its arguments: the unified dataset of
\* traffic and weather frames of at most n rows together over the rows T
\* and W, given to the scan with the columns of one of Cols and a threshold
\* of Ths.
InitDetect(T, W, n, Cols, Ths) ==
  /\ \E a, c \in 0..n :
       /\ a + c <= n
       /\ \E t \in Frames(T, a), w \in Frames(W, c) :
            /\ traffic_df = ConvertDates(t)
            /\ weather_df = ConvertDates(w)
  /\ clicks_df = <<>>
  /\ columns = RequiredColumns
  /\ merged = Merged(traffic_df, clicks_df, weather_df)
  /\ merged_cols \in Cols
  /\ overall = Overall(merged)
  /\ campaign_summary = CampaignSummary(merged)
  /\ pc = "processed"
  /\ pdf_anomalies = <<>>
  /\ ppt_anomalies = <<>>
  /\ warnings = {}
  /\ error = "none"
  /\ runs = 1
  /\ InitLlm(DefaultEnv)
  /\ drop_threshold \in Ths

\* One location over two days, given to the scan with any of the columns
\* the scan reads absent.
InitColumns ==
  InitDetect(TrafficRows({"2025-01-04", "2025-01-05"}, {"Delhi"},
                         {"CAMP01"}, {70, 100}),
             WeatherRows({"2025-01-04", "2025-01-05"}, {"Delhi"},
                         {<<25, 12>>}),
             MaxRows,
             {UnifiedColumns \ S :
                S \in SUBSET {"impressions", "location", "date",
                              "rainfall_mm"}},
             {DefaultDropThreshold})

\* Thresholds on both sides of the changes 0, -0.3 and +0.43 of the rows
\* below, a negative one among them.
Thresholds == {Num(-1, 2), Zero, DefaultDropThreshold, Num(31, 100), Int2F(1)}

\* Two locations over two days, scanned at each threshold, with all
\* columns, without rainfall_mm and without date.
InitThresholds ==
  InitDetect(TrafficRows({"2025-01-04", "2025-01-05"}, {"Delhi", "Mumbai"},
                         {"CAMP01"}, {70, 100}),
             {},
             MaxRows + 1,
             {UnifiedColumns, UnifiedColumns \ {"rainfall_mm"},
              UnifiedColumns \ {"date"}},
             Thresholds)

\* The triples of frames of at most n rows together over the rows T, C, W.
FrameTriples(T, C, W, n) ==
  UNION {Frames(T, y[1]) \X Frames(C, y[2]) \X Frames(W, y[3]) :
           y \in {z \in (0..n) \X (0..n) \X (0..n) : z[1] + z[2] + z[3] <= n}}

\* What the three files of a run of main may hold: a drop from 100 to 70
\* in one location, a date that does not parse, one click and one weather
\* row.
MainInputs ==
  FrameTriples(TrafficRows({"2025-01-04", "not-a-date"}, {"Delhi"},
                           {"CAMP01"}, {100})
                 \cup TrafficRows({"2025-01-05"}, {"Delhi"}, {"CAMP01"}, {70}),
               ClickRows({"2025-01-05"}, {"CAMP01"}, {<<5, 1, 10>>}),
               WeatherRows({"2025-01-05"}, {"Delhi"}, {<<25, 12>>}),
               MaxRows)

\* The columns of the three files: all of them, or weather without
\* rainfall_mm.
MainColumns ==
  {RequiredColumns,
   [RequiredColumns EXCEPT !.weather = @ \ {"rainfall_mm"}]}

\* The texts a model response may carry.
ModelTexts ==
  {<<"*", "*", "U", "p", "*", "*", " ">>,
   <<"#", " ", "U", "p">>,
   <<"E", "r", "r", "o", "r", "s">>}

\* The outcomes of one request.
Responses ==
  {Raised,
   Http(400, "non_json", <<>>), Http(404, "non_json", <<>>),
   Http(200, "non_json", <<>>), Http(500, "non_json", <<>>),
   Http(200, "no_text", <<>>), Http(500, "no_text", <<>>),
   Http(200, "not_dict", <<>>), Http(200, "outputNumber", <<>>)}
    \cup {Http(200, "candidates", t) : t \in ModelTexts}
    \cup {Http(200, "outputText", t) : t \in ModelTexts}

\* The outcomes of the n requests of one call: connection failures up to
\* some request, the response r from then on.
ResponseRuns(n) ==
  {[i \in 1..n |-> IF i < k THEN Raised ELSE r] :
     k \in 1..n, r \in Responses}

\* call_gemini_api as a function of its retries argument, of the API key
\* and of the outcomes of its requests.
InitRetry ==
  /\ traffic_df = <<>>
  /\ clicks_df = <<>>
  /\ weather_df = <<>>
  /\ columns = RequiredColumns
  /\ pc = "call"
  /\ InitOutputs
  /\ \E k \in BOOLEAN : env = [DefaultEnv EXCEPT !.api_key = k]
  /\ retries \in 1..MaxRetries
  /\ responses = <<>>
  /\ requests = 0
  /\ llm_result = NoResult
  /\ insights = <<>>
  /\ reports = <<>>

\* The start of main with the configuration e: nothing is read yet.
InitMain ==
  /\ traffic_df = <<>>
  /\ clicks_df = <<>>
  /\ weather_df = <<>>
  /\ columns = RequiredColumns
  /\ pc = "start"
  /\ InitOutputs
  /\ \E e \in [files_exist : BOOLEAN, llm_enabled : BOOLEAN,
               api_key : BOOLEAN, formats : SUBSET {"pdf", "pptx"}] :
       InitLlm(e)

(***************************************************************************)
(* The steps of main.                                                      *)
(***************************************************************************)
\* merged_df, metrics = process_data(traffic_df, clicks_df, weather_df, sql_df)
\* One call of process_data, made when main is at p.
ProcessDataFrom(p) ==
  LET t_ok == DatesParse(traffic_df, columns.traffic)
      c_ok == t_ok /\ DatesParse(clicks_df, columns.clicks)
      w_ok == c_ok /\ DatesParse(weather_df, columns.weather)
      conv(df, cols) == IF "date" \in cols THEN ConvertDates(df) ELSE df
      err == ProcessError(traffic_df, clicks_df, weather_df, columns)
  IN  /\ pc = p
      /\ warnings' = Warned(columns)
      /\ traffic_df' = IF t_ok THEN conv(traffic_df, columns.traffic)
                       ELSE traffic_df
      /\ clicks_df' = IF c_ok THEN conv(clicks_df, columns.clicks)
                      ELSE clicks_df
      /\ weather_df' = IF w_ok THEN conv(weather_df, columns.weather)
                       ELSE weather_df
      /\ IF err = "none"
         THEN /\ merged' = Merged(traffic_df', clicks_df', weather_df')
              /\ merged_cols' = UnifiedColumns
              /\ overall' = Overall(merged')
              /\ campaign_summary' = CampaignSummary(merged')
              /\ pc' = "processed"
              /\ error' = "none"
         ELSE /\ pc' = "failed"
              /\ error' = err
              /\ UNCHANGED <<merged, merged_cols, overall, campaign_summary>>
      /\ runs' = runs + 1
      /\ UNCHANGED <<columns, pdf_anomalies, ppt_anomalies, llm_vars>>

ProcessData == ProcessDataFrom("ingested")

\* A further call of process_data with the same three frame objects.
ProcessDataAgain == runs < MaxRuns /\ ProcessDataFrom("processed")

\* anomalies = _detect_anomalies(merged_df) in generate_pdf_report
ScanPdf ==
  /\ pc = "processed"
  /\ pdf_anomalies' = DetectAnomaliesPdf(merged, merged_cols,
                                         DefaultDropThreshold)
  /\ pc' = "pdf"
  /\ UNCHANGED <<traffic_df, clicks_df, weather_df, merged, overall,
                 campaign_summary, ppt_anomalies, columns, warnings, error,
                 merged_cols, runs, llm_vars>>

\* anomalies = _detect_anomalies(merged_df) in generate_ppt_report
ScanPpt ==
  /\ pc = "pdf"
  /\ ppt_anomalies' = DetectAnomaliesPpt(merged, merged_cols,
                                         DefaultDropThreshold)
  /\ pc' = "ppt"
  /\ UNCHANGED <<traffic_df, clicks_df, weather_df, merged, overall,
                 campaign_summary, pdf_anomalies, columns, warnings, error,
                 merged_cols, runs, llm_vars>>

\* traffic_df, clicks_df, weather_df, sql_df = ingest_all_data(config):
\* load_csv raises FileNotFoundError for a path that does not exist.
Ingest ==
  /\ pc = "start"
  /\ IF env.files_exist
     THEN /\ \E x \in MainInputs :
               /\ traffic_df' = x[1]
               /\ clicks_df' = x[2]
               /\ weather_df' = x[3]
          /\ columns' \in MainColumns
          /\ pc' = "ingested"
          /\ error' = "none"
     ELSE /\ pc' = "failed"
          /\ error' = "FileNotFoundError"
          /\ UNCHANGED <<traffic_df, clicks_df, weather_df, columns>>
  /\ UNCHANGED <<merged, merged_cols, overall, campaign_summary,
                 pdf_anomalies, ppt_anomalies, warnings, runs, llm_vars>>

\* insights = generate_insights(metrics, config)
GenerateInsights ==
  /\ pc = "processed"
  /\ IF ~env.llm_enabled
     THEN /\ pc' = "failed"
          /\ error' = "RuntimeError"
          /\ UNCHANGED <<responses, requests, llm_result, insights>>
     ELSE \E resps \in ResponseRuns(retries) :
            LET text == CallGeminiApi(env.api_key, retries, resps)
            IN  /\ responses' = resps
                /\ llm_result' = text
                /\ requests' = text.requests
                /\ IF text.kind = "number"
                   THEN /\ pc' = "failed"
                        /\ error' = "AttributeError"
                        /\ UNCHANGED insights
                   ELSE IF Rejected(text.str)
                   THEN /\ pc' = "failed"
                        /\ error' = "RuntimeError"
                        /\ UNCHANGED insights
                   ELSE /\ insights' =
                             <<[executive_summary |->
                                  CleanMarkdown(Strip(text.str))]>>
                        /\ pc' = "insights"
                        /\ UNCHANGED error
  /\ UNCHANGED <<traffic_df, clicks_df, weather_df, columns, merged,
                 merged_cols, overall, campaign_summary, pdf_anomalies,
                 ppt_anomalies, warnings, runs, drop_threshold, env, retries,
                 reports>>

\* main has the insights and has not yet looked at "pdf" in formats.
PdfReadyEarly == pc \in {"processed", "insights"}

PdfReady == pc = "insights"

\* if "pdf" in formats: generate_pdf_report(merged_df, metrics, insights, ...)
GeneratePdfReport ==
  /\ PdfReady
  /\ IF "pdf" \in env.formats
     THEN /\ pdf_anomalies' = DetectAnomaliesPdf(merged, merged_cols,
                                                 DefaultDropThreshold)
          /\ reports' = Append(reports, "pdf")
     ELSE UNCHANGED <<pdf_anomalies, reports>>
  /\ pc' = "pdf_done"
  /\ UNCHANGED <<traffic_df, clicks_df, weather_df, columns, merged,
                 merged_cols, overall, campaign_summary, ppt_anomalies,
                 warnings, error, runs, drop_threshold, env, retries,
                 responses, requests, llm_result,
                 insights>>

\* if "pptx" in formats: generate_ppt_report(merged_df, metrics, insights, ...)
GeneratePptReport ==
  /\ pc = "pdf_done"
  /\ IF "pptx" \in env.formats
     THEN /\ ppt_anomalies' = DetectAnomaliesPpt(merged, merged_cols,
                                                 DefaultDropThreshold)
          /\ reports' = Append(reports, "pptx")
     ELSE UNCHANGED <<ppt_anomalies, reports>>
  /\ pc' = "done"
  /\ UNCHANGED <<traffic_df, clicks_df, weather_df, columns, merged,
                 merged_cols, overall, campaign_summary, pdf_anomalies,
                 warnings, error, runs, drop_threshold, env, retries,
                 responses, requests, llm_result,
                 insights>>

\* _detect_anomalies(merged_df, drop_threshold) of pdf_report.py, called
\* with a threshold of the caller's choice.
DetectPdf ==
  /\ pc = "processed"
  /\ pdf_anomalies' = DetectAnomaliesPdf(merged, merged_cols, drop_threshold)
  /\ pc' = "pdf"
  /\ UNCHANGED <<traffic_df, clicks_df, weather_df, merged, overall,
                 campaign_summary, ppt_anomalies, columns, warnings, error,
                 merged_cols, runs, llm_vars>>

\* _detect_anomalies(merged_df, drop_threshold) of ppt_report.py, called
\* with the same arguments.
DetectPpt ==
  /\ pc = "pdf"
  /\ ppt_anomalies' = DetectAnomaliesPpt(merged, merged_cols, drop_threshold)
  /\ pc' = "ppt"
  /\ UNCHANGED <<traffic_df, clicks_df, weather_df, merged, overall,
                 campaign_summary, pdf_anomalies, columns, warnings, error,
                 merged_cols, runs, llm_vars>>

Next == ProcessData \/ ScanPdf \/ ScanPpt

\* The two implementations of the scan called one after the other.
NextDetect == DetectPdf \/ DetectPpt

SpecDetect == InitThresholds /\ [][NextDetect]_vars

\* call_gemini_api(system_prompt, contents, retries): each request meets
\* one of the outcomes.
CallGemini ==
  /\ pc = "call"
  /\ \E resps \in [1..retries -> Responses] :
       /\ responses' = resps
       /\ llm_result' = CallGeminiApi(env.api_key, retries, resps)
       /\ requests' = llm_result'.requests
  /\ pc' = "returned"
  /\ UNCHANGED <<traffic_df, clicks_df, weather_df, columns, merged,
                 merged_cols, overall, campaign_summary, pdf_anomalies,
                 ppt_anomalies, warnings, error, runs, drop_threshold, env,
                 retries, insights, reports>>

SpecRetry == InitRetry /\ [][CallGemini]_vars

\* One run of main from its start.
NextMain ==
  \/ Ingest
  \/ ProcessData
  \/ GenerateInsights
  \/ GeneratePdfReport
  \/ GeneratePptReport

SpecMain == InitMain /\ [][NextMain]_vars

Spec == Init /\ [][Next]_vars

SpecThreshold == InitThreshold /\ [][Next]_vars

SpecScan == InitScan /\ [][Next]_vars

SpecScenario == InitScenario /\ [][Next]_vars

SpecDegraded == InitDegraded /\ [][Next]_vars

\* process_data called again on the frames it has converted.
NextRerun == ProcessData \/ ProcessDataAgain

SpecRerun == Init /\ [][NextRerun]_vars

\* The two scans alone.
NextColumns == ScanPdf \/ ScanPpt

SpecColumns == InitColumns /\ [][NextColumns]_vars

(***************************************************************************)
(* Properties.  Every input cell of the specifications above is a whole    *)
(* number, so the sums below are sums of integers.                         *)
(***************************************************************************)
Processed == pc # "ingested"

Scanned == pc \in {"pdf", "ppt"}

\* x is the number 0.
IsZero(x) == IsNum(x) /\ x.n = 0

\* r is the quotient a / b of the numbers a and b # 0.
IsQuotient(r, a, b) == IsNum(r) /\ r.n * b.n * a.d = a.n * b.d * r.d

\* The sum of column f over the rows of df, nulls counted as 0.
RECURSIVE IntTotal(_, _)
IntTotal(df, f) ==
  IF df = <<>> THEN 0
  ELSE (IF IsNull(Head(df)[f]) THEN 0 ELSE Head(df)[f].n)
       + IntTotal(Tail(df), f)

\* The Unified Records with the key of the traffic row t.
RecordsOf(t) ==
  {i \in 1..Len(merged) :
     /\ merged[i].date = ToDatetime(t.date)
     /\ merged[i].campaign_id = t.campaign_id
     /\ merged[i].location = t.location}

\* C1: after process_data every (date, campaign_id, location) key of the
\* traffic input has exactly one Unified Record, whether or not click or
\* weather data matches it.
C1_JoinCompleteness ==
  Processed => \A t \in Range(traffic_df) : Cardinality(RecordsOf(t)) = 1

\* Two traffic keys, one with a matching click record and one without.
C1_Witness ==
  /\ pc = "processed"
  /\ Len(merged) = 2
  /\ \E i, j \in 1..2 : ~IsNull(merged[i].clicks) /\ IsNull(merged[j].clicks)

\* The null policy of one ratio r = a / b.
NullPolicy(r, a, b) ==
  /\ ~IsInf(r)
  /\ IsNull(r) <=> (IsNull(a) \/ IsNull(b) \/ IsZero(b))
  /\ ~IsNull(r) => IsQuotient(r, a, b)

\* C2: each ratio of each Unified Record is null exactly when its
\* denominator is 0 or null or its numerator is null, is the quotient
\* otherwise, and is never infinite.
C2_RowRatioNullPolicy ==
  Processed =>
    \A i \in 1..Len(merged) :
      LET r == merged[i]
      IN  /\ NullPolicy(r.ctr, r.clicks, r.impressions)
          /\ NullPolicy(r.cpc, r.spend, r.clicks)
          /\ NullPolicy(r.conversion_rate, r.conversions, r.clicks)
          /\ NullPolicy(r.cpa, r.spend, r.conversions)

\* A record with spend but no clicks (the raw division is infinite) beside
\* a ratio that has a value.
C2_Witness ==
  /\ pc = "processed"
  /\ \E i \in 1..Len(merged) :
       /\ IsZero(merged[i].clicks)
       /\ merged[i].spend.n > 0
       /\ IsNull(merged[i].cpc)
       /\ IsZero(merged[i].ctr)

\* C3: each ratio of each Campaign Summary row is null when its denominator
\* (the campaign's summed impressions, clicks, clicks, conversions) is
\* zero, and none is ever infinite.
C3_CampaignRatioNullPolicy ==
  Processed =>
    \A i \in 1..Len(campaign_summary) :
      LET r == campaign_summary[i]
      IN  /\ IsZero(r.impressions) => IsNull(r.ctr)
          /\ IsZero(r.clicks) => IsNull(r.cpc) /\ IsNull(r.cvr)
          /\ IsZero(r.conversions) => IsNull(r.cpa)
          /\ ~IsInf(r.ctr) /\ ~IsInf(r.cpc) /\ ~IsInf(r.cvr) /\ ~IsInf(r.cpa)

\* The zero-default policy of one overall ratio r = a / b.
ZeroDefault(r, a, b) ==
  /\ IsNum(r)
  /\ IsZero(b) => IsZero(r)
  /\ ~IsZero(b) => IsQuotient(r, a, b)

\* C4: the four totals are the sums over all Unified Records with nulls
\* counted as 0; each overall ratio is the quotient of its totals when the
\* denominator total is not 0 and is 0.0, never null, when it is 0;
\* overall_ctr is 0.0 when total_clicks is 0.
C4_OverallZeroDefault ==
  Processed =>
    /\ overall.total_impressions = Int2F(IntTotal(merged, "impressions"))
    /\ overall.total_clicks = Int2F(IntTotal(merged, "clicks"))
    /\ overall.total_conversions = Int2F(IntTotal(merged, "conversions"))
    /\ overall.total_spend = Int2F(IntTotal(merged, "spend"))
    /\ ZeroDefault(overall.overall_ctr, overall.total_clicks,
                   overall.total_impressions)
    /\ ZeroDefault(overall.overall_cpc, overall.total_spend,
                   overall.total_clicks)
    /\ ZeroDefault(overall.overall_cvr, overall.total_conversions,
                   overall.total_clicks)
    /\ ZeroDefault(overall.overall_cpa, overall.total_spend,
                   overall.total_conversions)
    /\ IsZero(overall.total_clicks) => IsZero(overall.overall_ctr)

\* Spend without clicks overall, one record with null click cells among
\* the summed ones: overall_cpc is 0.0.
C4_Witness ==
  /\ pc = "processed"
  /\ IsZero(overall.total_clicks)
  /\ overall.total_spend.n > 0
  /\ overall.total_impressions.n > 0
  /\ \E i \in 1..Len(merged) : IsNull(merged[i].clicks)
  /\ IsZero(overall.overall_cpc)

\* C5 as stated: a Unified Record whose clicks value is 0 has ctr = null.
C5_ZeroClicksNullCtr ==
  Processed =>
    \A i \in 1..Len(merged) : IsZero(merged[i].clicks) => IsNull(merged[i].ctr)

\* C5 as amended: a Unified Record whose clicks value is 0 has ctr = 0.0
\* when its impressions are not 0 and ctr = null when they are 0, and its
\* cpc and conversion_rate (the ratios over clicks) are null; the Overall
\* Summary with total_clicks = 0 has overall_ctr = 0.0.
C5_ZeroClicksRow ==
  Processed =>
    /\ \A i \in 1..Len(merged) :
         IsZero(merged[i].clicks) =>
           /\ ~IsZero(merged[i].impressions) => IsZero(merged[i].ctr)
           /\ IsZero(merged[i].impressions) => IsNull(merged[i].ctr)
           /\ IsNull(merged[i].cpc)
           /\ IsNull(merged[i].conversion_rate)
    /\ IsZero(overall.total_clicks) => IsZero(overall.overall_ctr)

\* A record with 0 clicks on 100 impressions, the only record.
C5_Witness ==
  /\ pc = "processed"
  /\ Len(merged) = 1
  /\ IsZero(merged[1].clicks)
  /\ merged[1].impressions = Int2F(100)
  /\ IsZero(overall.overall_ctr)

(***************************************************************************)
(* Properties of the anomaly scan, stated over the Unified Records.        *)
(***************************************************************************)
LocationsOf == {merged[i].location : i \in 1..Len(merged)}

\* The days on which location l has Unified Records.
DaysOf(l) ==
  {merged[i].date.day : i \in {j \in 1..Len(merged) : merged[j].location = l}}

\* The impressions of location l on day d, summed over all campaigns.
DaySum(l, d) ==
  IntTotal(SelectSeq(merged, LAMBDA r : r.location = l /\ r.date.day = d),
           "impressions")

\* The pairs (previous, current) of adjacent entries of l's series.
Adjacent(l) ==
  {p \in DaysOf(l) \X DaysOf(l) :
     p[1] < p[2] /\ \A d \in DaysOf(l) : ~(p[1] < d /\ d < p[2])}

\* The findings of the list anoms for location l on day d.
FindingsAt(anoms, l, d) ==
  {i \in 1..Len(anoms) :
     anoms[i].location = l /\ anoms[i].date = TimestampStr(d)}

\* (curr - prev) / prev <= -0.30
DropsBy30(prev, curr) == (curr - prev) * 10 <= -3 * prev

ThresholdRule(anoms) ==
  \A l \in LocationsOf : \A p \in Adjacent(l) :
    LET prev == DaySum(l, p[1])
        curr == DaySum(l, p[2])
        at == FindingsAt(anoms, l, p[2])
    IN  prev > 0 =>
          /\ Cardinality(at) = IF DropsBy30(prev, curr) THEN 1 ELSE 0
          /\ (prev = 100 /\ curr = 70) =>
               \A i \in at : anoms[i].drop_pct = Int2F(30)
          /\ (prev = 100 /\ curr = 71) => at = {}

\* C6: at the default threshold 0.30 a pair of adjacent entries of one
\* location's series of per-(date, location) impression sums with
\* previous > 0 has a finding, and exactly one, if and only if
\* (current - previous)/previous <= -0.30; [100, 70] yields a finding with
\* drop_pct = 30.0 and [100, 71] none.
C6_ThresholdRule ==
  /\ Scanned => ThresholdRule(pdf_anomalies)
  /\ pc = "ppt" => ThresholdRule(ppt_anomalies)

\* Two campaigns of 100 impressions each, then 70 each: the sums 200 and
\* 140 sit on the bound and give a finding of 30.0%.
C6_Witness ==
  /\ pc = "ppt"
  /\ Len(merged) = 4
  /\ \E i \in 1..Len(pdf_anomalies) :
       /\ pdf_anomalies[i].impressions_previous = 200
       /\ pdf_anomalies[i].impressions_current = 140
       /\ pdf_anomalies[i].drop_pct = Int2F(30)

\* C7: a pair whose previous entry has impressions <= 0 never produces a
\* finding, and the pair that follows it in the same location is still
\* scanned.
C7_ZeroGuard ==
  Scanned =>
    \A l \in LocationsOf : \A p \in Adjacent(l) :
      DaySum(l, p[1]) <= 0 =>
        /\ FindingsAt(pdf_anomalies, l, p[2]) = {}
        /\ \A q \in Adjacent(l) :
             (q[1] = p[2] /\ DaySum(l, q[1]) > 0
              /\ DropsBy30(DaySum(l, q[1]), DaySum(l, q[2])))
               => FindingsAt(pdf_anomalies, l, q[2]) # {}

\* The series [0, 100, 70]: nothing for the first pair, a finding for the
\* second.
C7_Witness ==
  /\ pc = "pdf"
  /\ \E l \in LocationsOf :
       /\ DaysOf(l) = {3, 4, 5}
       /\ DaySum(l, 3) = 0 /\ DaySum(l, 4) = 100 /\ DaySum(l, 5) = 70
       /\ FindingsAt(pdf_anomalies, l, 4) = {}
       /\ FindingsAt(pdf_anomalies, l, 5) # {}

\* The Unified Records of a finding's (date, location).
FindingRecords(f) ==
  SelectSeq(merged, LAMBDA r : r.location = f.location
                               /\ TimestampStr(r.date.day) = f.date)

\* C8: a finding carries a rainfall value if and only if some Unified
\* Record of its (date, location) has a non-null rainfall_mm, and the value
\* is then the mean rainfall_mm of those records; with no weather record
\* the rainfall part is omitted, never a null/NaN value.
C8_RainfallAnnotation ==
  Scanned =>
    \A i \in 1..Len(pdf_anomalies) :
      LET f == pdf_anomalies[i]
          rain == Column(FindingRecords(f), "rainfall_mm")
          known == SelectSeq(rain, LAMBDA x : ~IsNull(x))
      IN  /\ f.rainfall.present <=> known # <<>>
          /\ f.rainfall.present =>
               /\ IsNum(f.rainfall.mm)
               /\ f.rainfall.mm.n * Len(known)
                    = IntTotal(FindingRecords(f), "rainfall_mm")
                      * f.rainfall.mm.d

\* The day of a finding's date string.
FindingDay(f) == CHOOSE d \in 3..5 : TimestampStr(d) = f.date

\* C9: the findings are listed by location ascending and, within one
\* location, by date ascending.
C9_FindingOrder ==
  Scanned =>
    \A i, j \in 1..Len(pdf_anomalies) :
      i < j =>
        LET a == pdf_anomalies[i]
            b == pdf_anomalies[j]
        IN  \/ a.location = "Delhi" /\ b.location = "Mumbai"
            \/ a.location = b.location /\ FindingDay(a) < FindingDay(b)

\* A finding for Delhi on 01-05 listed before one for Mumbai on 01-04.
C9_Witness ==
  /\ pc = "pdf"
  /\ \E i, j \in 1..Len(pdf_anomalies) :
       /\ i < j
       /\ pdf_anomalies[i].location = "Delhi"
       /\ FindingDay(pdf_anomalies[i]) = 5
       /\ pdf_anomalies[j].location = "Mumbai"
       /\ FindingDay(pdf_anomalies[j]) = 4

\* The inputs of the end-to-end scenario (dates as process_data leaves them).
ScenarioInput ==
  /\ Range(traffic_df) =
       {[date |-> Timestamp(4), location |-> "Delhi", campaign_id |-> "CAMP01",
         impressions |-> Int2F(1000)],
        [date |-> Timestamp(5), location |-> "Delhi", campaign_id |-> "CAMP01",
         impressions |-> Int2F(600)]}
  /\ Range(clicks_df) =
       {[date |-> Timestamp(4), campaign_id |-> "CAMP01", clicks |-> Int2F(50),
         conversions |-> Int2F(5), spend |-> Int2F(100)],
        [date |-> Timestamp(5), campaign_id |-> "CAMP01", clicks |-> Int2F(30),
         conversions |-> Int2F(3), spend |-> Int2F(60)]}
  /\ Range(weather_df) =
       {[date |-> Timestamp(5), location |-> "Delhi",
         temperature_c |-> Int2F(25), rainfall_mm |-> Int2F(12)]}

\* C10: on the scenario's inputs there are exactly two Unified Records, the
\* 01-05 one with rainfall_mm = 12.0 and the 01-04 one with rainfall_mm
\* null, and exactly one finding: Delhi, 2025-01-05, drop_pct 40.0,
\* impressions 600 against 1000, rainfall 12.0.
C10_Scenario ==
  (Scanned /\ ScenarioInput) =>
    /\ Len(merged) = 2
    /\ \E i \in 1..2 : /\ merged[i].date = Timestamp(5)
                       /\ merged[i].rainfall_mm = Int2F(12)
    /\ \E i \in 1..2 : /\ merged[i].date = Timestamp(4)
                       /\ IsNull(merged[i].rainfall_mm)
    /\ pdf_anomalies =
         <<[location |-> "Delhi",
            date |-> "2025-01-05 00:00:00",
            drop_pct |-> Int2F(40),
            impressions_current |-> 600,
            impressions_previous |-> 1000,
            rainfall |-> [present |-> TRUE, mm |-> Int2F(12)]]>>

\* The scenario, scanned.
C10_Witness == pc = "pdf" /\ ScenarioInput

\* Some required column is absent from an input.
ColumnMissing == ~ColumnsPresent(columns)

\* Some date cell of an input that has a date column cannot be parsed.
DateUnparseable ==
  \/ ~DatesParse(traffic_df, columns.traffic)
  \/ ~DatesParse(clicks_df, columns.clicks)
  \/ ~DatesParse(weather_df, columns.weather)

\* process_data has returned nothing.
NoOutputs == merged = <<>> /\ overall = NoOverall /\ campaign_summary = <<>>

\* C11: when a required column is absent from an input whose dates all
\* parse, process_data warns about that dataset and still completes with a
\* unified dataset and metrics; it does not end in an exception.
C11_MissingColumnNeverFatal ==
  runs > 0 /\ ColumnMissing /\ ~DateUnparseable =>
    /\ warnings # {}
    /\ error = "none"
    /\ pc # "failed"

\* C12: when a date cell of an input that has a date column cannot be
\* parsed, process_data ends in the ValueError of pd.to_datetime and returns
\* no unified dataset and no metrics; no Unified Record is built from the
\* other rows or with a null date.
C12_UnparseableDateFatal ==
  runs > 0 /\ DateUnparseable =>
    /\ error = "ValueError"
    /\ pc = "failed"
    /\ NoOutputs

\* process_data has run on a clicks input with one good and one bad date and
\* a weather input that lacks rainfall_mm.
C12_Witness ==
  /\ runs > 0
  /\ Len(clicks_df) = 2
  /\ \E i, j \in 1..2 :
       Parseable(clicks_df[i].date) /\ ~Parseable(clicks_df[j].date)
  /\ "rainfall_mm" \notin columns.weather
  /\ Len(traffic_df) = 1
  /\ traffic_df[1].date.typ = "ts"

\* The scan was given the three columns it cannot do without.
CoreColumns == {"impressions", "location", "date"} \subseteq merged_cols

\* No finding of the list anoms carries a rainfall annotation.
NoRainfall(anoms) == \A i \in 1..Len(anoms) : ~anoms[i].rainfall.present

\* C13: a scan of a dataset without the impressions, location or date
\* column returns the empty list; a scan of a dataset that lacks only
\* rainfall_mm returns the findings of the threshold rule, none of them with
\* a rainfall annotation.
C13_ScannerColumns ==
  /\ Scanned /\ ~CoreColumns => pdf_anomalies = <<>>
  /\ pc = "ppt" /\ ~CoreColumns => ppt_anomalies = <<>>
  /\ Scanned /\ CoreColumns /\ "rainfall_mm" \notin merged_cols =>
       ThresholdRule(pdf_anomalies) /\ NoRainfall(pdf_anomalies)
  /\ pc = "ppt" /\ CoreColumns /\ "rainfall_mm" \notin merged_cols =>
       ThresholdRule(ppt_anomalies) /\ NoRainfall(ppt_anomalies)

\* Both scans have found the drop from 100 to 70 in a dataset given without
\* the rainfall_mm column, on a day that has a rainfall record.
C13_Witness ==
  /\ pc = "ppt"
  /\ CoreColumns
  /\ "rainfall_mm" \notin merged_cols
  /\ Len(pdf_anomalies) = 1
  /\ Len(ppt_anomalies) = 1
  /\ pdf_anomalies[1].drop_pct = Int2F(30)
  /\ \E i \in 1..Len(merged) : ~IsNull(merged[i].rainfall_mm)

\* The campaigns of the Unified Records.
CampaignsOf == {merged[i].campaign_id : i \in 1..Len(merged)}

\* C14: for a non-empty unified dataset the Campaign Summary has exactly one
\* row per campaign_id of the Unified Records and no other row, and its
\* impressions, clicks, conversions and spend columns add up to the totals
\* of the Overall Summary (nulls counted as 0).
C14_CampaignSummaryComplete ==
  pc = "processed" /\ merged # <<>> =>
    /\ \A k \in CampaignsOf :
         Cardinality({i \in 1..Len(campaign_summary) :
                        campaign_summary[i].campaign_id = k}) = 1
    /\ Len(campaign_summary) = Cardinality(CampaignsOf)
    /\ Int2F(IntTotal(campaign_summary, "impressions"))
         = overall.total_impressions
    /\ Int2F(IntTotal(campaign_summary, "clicks")) = overall.total_clicks
    /\ Int2F(IntTotal(campaign_summary, "conversions"))
         = overall.total_conversions
    /\ Int2F(IntTotal(campaign_summary, "spend")) = overall.total_spend

\* Two Unified Records of one campaign, one of them without click data.
C14_Witness ==
  /\ pc = "processed"
  /\ Len(merged) = 2
  /\ Len(campaign_summary) = 1
  /\ \E i, j \in 1..2 : IsNull(merged[i].clicks) /\ ~IsNull(merged[j].clicks)
  /\ ~IsZero(overall.total_impressions)
  /\ ~IsZero(overall.total_clicks)

C16_InputsUnchanged ==
  [][runs' > runs =>
       /\ traffic_df' = traffic_df
       /\ clicks_df' = clicks_df
       /\ weather_df' = weather_df]_vars

\* The Click records with the date and campaign_id of the Unified Record r.
ClicksOf(r) ==
  SelectSeq(clicks_df, LAMBDA c : /\ ToDatetime(c.date) = r.date
                                  /\ c.campaign_id = r.campaign_id)

\* The Traffic records with the key of the Unified Record r.
TrafficOf(r) ==
  SelectSeq(traffic_df, LAMBDA t : /\ ToDatetime(t.date) = r.date
                                   /\ t.campaign_id = r.campaign_id
                                   /\ t.location = r.location)

\* C17: the clicks, conversions and spend of a Unified Record are the sums
\* over the Click records of its date and campaign_id when there is one,
\* and all null when there is none; its impressions are the sum over the
\* Traffic records of its key and never null.
C17_ClickValues ==
  pc = "processed" =>
    \A i \in 1..Len(merged) :
      LET r == merged[i]
          cl == ClicksOf(r)
      IN  /\ cl # <<>> =>
                /\ r.clicks = Int2F(IntTotal(cl, "clicks"))
                /\ r.conversions = Int2F(IntTotal(cl, "conversions"))
                /\ r.spend = Int2F(IntTotal(cl, "spend"))
          /\ cl = <<>> =>
                IsNull(r.clicks) /\ IsNull(r.conversions) /\ IsNull(r.spend)
          /\ r.impressions = Int2F(IntTotal(TrafficOf(r), "impressions"))
          /\ ~IsNull(r.impressions)

\* A Unified Record whose key has two Click records, their spend summed
\* to 20.
C17_Witness ==
  /\ pc = "processed"
  /\ Len(merged) = 1
  /\ Len(ClicksOf(merged[1])) = 2
  /\ merged[1].spend = Int2F(20)

\* call_gemini_api has returned one of its own messages.
CallFailed == llm_result.kind = "failure"

\* C18: when the LLM is disabled or the call has gone wrong (no API key,
\* connection failure on every attempt, HTTP 400 or 404, a non-JSON
\* response, a response without text), generate_insights ends in
\* RuntimeError and returns no executive_summary.
C18_InsightFailureRaises ==
  pc \in {"failed", "insights", "pdf_done", "done"}
    /\ runs = 1 /\ error \notin {"ValueError", "KeyError"}
    /\ (~env.llm_enabled \/ CallFailed) =>
      error = "RuntimeError" /\ insights = <<>>

\* C19: a string call_gemini_api returns that is not text taken from the
\* model response starts with "Error" or with "FATAL ERROR".
C19_ResultFormat ==
  CallFailed =>
    StartsWith(llm_result.str, W_Error)
      \/ StartsWith(llm_result.str, W_FATAL_ERROR)

OneDecimalOf(r, a, b) ==
  /\ IsNum(r)
  /\ (10 * r.n) % r.d = 0
  /\ 20 * Abs(r.n * b - a * r.d) <= r.d * b

\* Every finding of anoms is the finding of an adjacent pair of a
\* location's series and reports that pair.
FindingContent(anoms) ==
  \A i \in 1..Len(anoms) :
    \E l \in LocationsOf : \E p \in Adjacent(l) :
      LET prev == DaySum(l, p[1])
          curr == DaySum(l, p[2])
      IN  /\ anoms[i].location = l
          /\ anoms[i].date = TimestampStr(p[2])
          /\ anoms[i].impressions_previous = prev
          /\ anoms[i].impressions_current = curr
          /\ prev > 0
          /\ OneDecimalOf(anoms[i].drop_pct, (prev - curr) * 100, prev)
          /\ Leq(Int2F(30), anoms[i].drop_pct)

\* C21: every finding carries the location of its series, the date of the
\* current entry of its pair, the pair's two impression sums and
\* drop_pct = (previous - current)/previous * 100 to one decimal; its
\* previous sum is > 0 and its drop_pct is at least 30, the default
\* threshold times 100.
C21_FindingContent ==
  /\ Scanned => FindingContent(pdf_anomalies)
  /\ pc = "ppt" => FindingContent(ppt_anomalies)

\* A drop from 171 (two campaigns) to 70: 59.06...% reported as 59.1.
C21_Witness ==
  /\ pc = "ppt"
  /\ \E i \in 1..Len(ppt_anomalies) :
       /\ ppt_anomalies[i].impressions_previous = 171
       /\ ppt_anomalies[i].impressions_current = 70
       /\ ppt_anomalies[i].drop_pct = Num(591, 10)

FileName == [traffic |-> "traffic.csv", clicks |-> "clicks.csv",
             weather |-> "weather.csv"]

\* C23: process_data warns about an input exactly when that input lacks one
\* of its own required columns, whatever columns the other inputs have.
C23_PerDatasetCheck ==
  runs > 0 =>
    \A f \in {"traffic", "clicks", "weather"} :
      FileName[f] \in warnings <=> ~(RequiredColumns[f] \subseteq columns[f])

\* process_data has warned about clicks and weather and not about traffic,
\* which has all its columns.
C23_Witness ==
  /\ runs > 0
  /\ warnings = {"clicks.csv", "weather.csv"}
  /\ "spend" \notin columns.clicks
  /\ "rainfall_mm" \notin columns.weather
  /\ columns.traffic = RequiredColumns.traffic

\* The findings of anoms compare adjacent entries of one location only:
\* each is dated on the later entry of an adjacent pair of its location and
\* reports the sum of the earlier entry, and each adjacent pair with a
\* positive earlier sum and a drop of 30% or more has its finding, however
\* many days lie between the two entries.
GapRule(anoms) ==
  /\ \A i \in 1..Len(anoms) :
       \E p \in Adjacent(anoms[i].location) :
         /\ anoms[i].date = TimestampStr(p[2])
         /\ anoms[i].impressions_previous = DaySum(anoms[i].location, p[1])
         /\ anoms[i].impressions_current = DaySum(anoms[i].location, p[2])
  /\ \A l \in LocationsOf : \A p \in Adjacent(l) :
       DaySum(l, p[1]) > 0 /\ DropsBy30(DaySum(l, p[1]), DaySum(l, p[2])) =>
         FindingsAt(anoms, l, p[2]) # {}

ClickKeys == {ClicksKey(c) : c \in Range(ConvertDates(clicks_df))}

\* The sum of field f over the Click records of key k.
ClickSum(k, f) ==
  IntTotal(SelectSeq(ConvertDates(clicks_df), LAMBDA c : ClicksKey(c) = k), f)

\* The traffic locations of the (date, campaign_id) key k.
LocationsOfKey(k) ==
  {t.location : t \in {u \in Range(ConvertDates(traffic_df)) :
                         ClicksKey(u) = k}}

\* The sum over the keys K of the click aggregate times the number of
\* locations.
RECURSIVE FanOut(_, _)
FanOut(K, f) ==
  IF K = {} THEN 0
  ELSE LET k == CHOOSE x \in K : TRUE
       IN  ClickSum(k, f) * Cardinality(LocationsOfKey(k))
           + FanOut(K \ {k}, f)

\* The plain sum of field f over the Click records whose key has traffic.
RECURSIVE MatchedSum(_, _)
MatchedSum(K, f) ==
  IF K = {} THEN 0
  ELSE LET k == CHOOSE x \in K : TRUE
       IN  (IF LocationsOfKey(k) = {} THEN 0 ELSE ClickSum(k, f))
           + MatchedSum(K \ {k}, f)

\* The total of the Overall Summary for the field f.
OverallTotal(f) ==
  CASE f = "clicks" -> overall.total_clicks
    [] f = "conversions" -> overall.total_conversions
    [] f = "spend" -> overall.total_spend

ClickFields == {"clicks", "conversions", "spend"}

\* The totals and the per-campaign sums are the click aggregates times the
\* number of locations of their key.
FanOutTotals ==
  \A f \in ClickFields :
    /\ OverallTotal(f) = Int2F(FanOut(ClickKeys, f))
    /\ \A i \in 1..Len(campaign_summary) :
         campaign_summary[i][f] =
           Int2F(FanOut({k \in ClickKeys :
                           k[2] = campaign_summary[i].campaign_id}, f))

\* Every (date, campaign_id) that has a click aggregate has a single
\* traffic location at most.
SingleLocation == \A k \in ClickKeys : Cardinality(LocationsOfKey(k)) <= 1

\* C25 as stated: the fan-out totals, and a total equals the plain sum of
\* the matched Click records only when every (date, campaign_id) of a click
\* aggregate has a single location.
C25_FanOutOnlyWhenSingle ==
  pc = "processed" =>
    /\ FanOutTotals
    /\ \A f \in ClickFields :
         OverallTotal(f) = Int2F(MatchedSum(ClickKeys, f)) => SingleLocation

\* C25: the totals of clicks, conversions and spend (and the per-campaign
\* sums) are the sums over the click aggregates of the value times the
\* number of traffic locations of the aggregate's (date, campaign_id); a
\* total equals the plain sum of the matched Click records when no clicked
\* key has more than one location, and exceeds it when a clicked key with a
\* non-zero value has more than one.
C25_FanOut ==
  pc = "processed" =>
    /\ FanOutTotals
    /\ \A f \in ClickFields :
         /\ SingleLocation =>
              OverallTotal(f) = Int2F(MatchedSum(ClickKeys, f))
         /\ (\E k \in ClickKeys : /\ Cardinality(LocationsOfKey(k)) >= 2
                                  /\ ClickSum(k, f) > 0) =>
              OverallTotal(f).n > MatchedSum(ClickKeys, f)

\* One Click record of 5 clicks, no conversion and 10 spend on a key with
\* traffic in Delhi and in Mumbai: total_clicks is 10 and total_spend 20,
\* total_conversions 0 as in the record.
C25_Witness ==
  /\ pc = "processed"
  /\ Len(merged) = 2
  /\ ~SingleLocation
  /\ Len(clicks_df) = 1
  /\ overall.total_clicks = Int2F(10)
  /\ overall.total_spend = Int2F(20)
  /\ overall.total_conversions = Int2F(0)

\* The requests of the call follow the retry rule: at least one and at most
\* retries of them, each but the first sent after the one before it raised,
\* none sent after a response was received, and the result is not the
\* fallback message after the loop.
RetryRule ==
  /\ requests \in 1..retries
  /\ \A i \in 1..(requests - 1) : responses[i].raised
  /\ \A i \in 1..retries :
       ~responses[i].raised /\ (\A j \in 1..(i - 1) : responses[j].raised) =>
         requests = i
  /\ llm_result.str # MsgAfterRetries

\* C26: call_gemini_api called with retries = n >= 1 and an API key present
\* returns a string, sends at most n requests, sends a further request only
\* after the previous one raised a connection-level exception, stops at
\* the first response received, and never returns the fallback message.
C26_BoundedRetry ==
  pc = "returned" /\ env.api_key =>
    /\ llm_result.kind \in {"text", "failure"}
    /\ RetryRule

====
